---- MODULE Spec2Model ----
(***************************************************************************)
(* A model of the snowflake-me ID generator: Builder::finalize             *)
(* (src/src/builder.rs), Snowflake::next_id and                            *)
(* DecomposedSnowflake::decompose (src/src/snowflake.rs).                  *)
(*                                                                         *)
(* Representation choices.                                                 *)
(*  - Instants (DateTime<Utc>) are integers: nanoseconds counted from      *)
(*    2022-01-01T00:00:00Z, the builder's default start time.  That origin *)
(*    is a whole number of milliseconds after 1970, so the truncating      *)
(*    division of to_snowflake_time commutes with the shift of origin.     *)
(*    The clock never reads before the origin.                             *)
(*  - u8, u16 and i64 values are integers; every + and << of the source    *)
(*    that can overflow its type is modelled with both outcomes a build    *)
(*    can produce: a panic when overflow checks are on (debug profile), the*)
(*    wrapped value when they are off (release profile).                   *)
(*  - u64 values (IDs, decomposed fields) are the sets of their one-bits,  *)
(*    positions 0..63: a 63-bit layout does not fit the model checker's    *)
(*    32-bit integers.                                                     *)
(***************************************************************************)
EXTENDS Integers, Sequences, FiniteSets, TLC

\* ------------------------------------------------------------------------
\* Integer arithmetic of the source's types
\* ------------------------------------------------------------------------

\* 1 << n as a mathematical integer (n <= 30 in every use).
Pow2(n) == 2 ^ n

\* a + b on u8 overflows.
U8AddOverflows(a, b) == a + b > 255

\* a + b on u8 with overflow checks off.
U8WrappingAdd(a, b) == (a + b) % 256

\* 1 << n on u16 (n: u8) overflows: the shift amount reaches the bit width.
Shl16Overflows(n) == n >= 16

\* (1 << n) - 1 on u16 with overflow checks off: the shift amount is masked.
Mask16(n) == Pow2(n % 16) - 1

\* a << n or 1 << n on a 64-bit type (n: u8) overflows.
Shl64Overflows(n) == n >= 64

\* The one-bits of a non-negative integer below 2^31 ("as u64").
BitsOf(n) == {i \in 0..30 : (n \div Pow2(i)) % 2 = 1}

\* x << n on u64, shift amount already below 64: bits shifted past 63 are lost.
Shl64(x, n) == {b + n : b \in x} \cap (0..63)

\* x >> n on u64.
Shr64(x, n) == {b - n : b \in {c \in x : c >= n}}

\* (1 << n) - 1 on u64, n <= 63.
Mask64(n) == 0..(n - 1)

\* a < b on u64: the highest bit in which they differ is set in b.
Lt64(a, b) ==
    LET diff == (a \ b) \cup (b \ a) IN
    /\ diff # {}
    /\ (CHOOSE m \in diff : \A d \in diff : d <= m) \in b

\* ------------------------------------------------------------------------
\* Clock
\* ------------------------------------------------------------------------

SNOWFLAKE_TIME_UNIT == 1000000

\* Utc.with_ymd_and_hms(2022, 1, 1, 0, 0, 0): the origin of the model's time.
DefaultStartTime == 0

\* time.timestamp_nanos_opt().unwrap_or(0) / SNOWFLAKE_TIME_UNIT
to_snowflake_time(time) == time \div SNOWFLAKE_TIME_UNIT

\* to_snowflake_time(Utc::now()) - start_time
current_elapsed_time(now, start_time) == to_snowflake_time(now) - start_time

\* Mutant: the part of the tick already elapsed is not subtracted.
sleep_time_WholeTicks(overtime, now_ns) == overtime * SNOWFLAKE_TIME_UNIT

\* Duration::from_millis(overtime) - Duration::from_nanos(now_ns % UNIT), in ns.
sleep_time(overtime, now_ns) ==
    overtime * SNOWFLAKE_TIME_UNIT - (now_ns % SNOWFLAKE_TIME_UNIT)

\* ------------------------------------------------------------------------
\* Builder
\* ------------------------------------------------------------------------

\* An identity source that was never set (Option::None).
NoSource == [set |-> FALSE, ok |-> FALSE, val |-> 0, err |-> ""]

\* A source callable returning Ok(v).
SourceOk(v) == [set |-> TRUE, ok |-> TRUE, val |-> v, err |-> ""]

\* A source callable returning Err(e).
SourceErr(e) == [set |-> TRUE, ok |-> FALSE, val |-> 0, err |-> e]

\* A check predicate that was never set (Option::None).
NoCheck == [set |-> FALSE, accepts |-> {}]

\* A check predicate, given by the set of ids it returns true for.
Check(accepted) == [set |-> TRUE, accepts |-> accepted]

\* Builder::new(): no start time, no sources, no checks, widths 41/12/5/5.
BuilderNew ==
    [ has_start_time |-> FALSE, start_time |-> 0,
      machine_id |-> NoSource, data_center_id |-> NoSource,
      check_machine_id |-> NoCheck, check_data_center_id |-> NoCheck,
      bit_len_time |-> 41, bit_len_sequence |-> 12,
      bit_len_data_center_id |-> 5, bit_len_machine_id |-> 5 ]

\* The SharedSnowflake of a finalize that returned none.
NoShared ==
    [ start_time |-> 0, machine_id |-> 0, data_center_id |-> 0,
      bit_len_time |-> 0, bit_len_sequence |-> 0,
      bit_len_data_center_id |-> 0, bit_len_machine_id |-> 0 ]

\* finalize returns Err(err); cause is the wrapped error or message class,
\* called the callables invoked on the way.
BuildErr(err, cause, called) ==
    [kind |-> "err", err |-> err, cause |-> cause, called |-> called,
     shared |-> NoShared]

\* finalize panics on an arithmetic overflow (overflow checks on).
BuildPanic(called) ==
    [kind |-> "panic", err |-> "", cause |-> "", called |-> called,
     shared |-> NoShared]

\* finalize returns Ok(Snowflake::new_inner(shared)).
BuildOk(shared, called) ==
    [kind |-> "ok", err |-> "", cause |-> "", called |-> called,
     shared |-> shared]

\* Some partial sum of bit_len_time + bit_len_sequence + bit_len_data_center_id
\* + bit_len_machine_id (u8, left to right) overflows.
BitLenSumOverflows(b) ==
    LET s1 == b.bit_len_time + b.bit_len_sequence
        s2 == s1 + b.bit_len_data_center_id
        s3 == s2 + b.bit_len_machine_id
    IN  s1 > 255 \/ s2 > 255 \/ s3 > 255

\* The same sum with overflow checks off.
BitLenSum(b) ==
    U8WrappingAdd(U8WrappingAdd(U8WrappingAdd(b.bit_len_time, b.bit_len_sequence),
                                b.bit_len_data_center_id),
                  b.bit_len_machine_id)

\* What resolving an identity gave: the id, or the error finalize returns.
Resolved(val) == [ok |-> TRUE, val |-> val, err |-> "", cause |-> ""]
Unresolved(err, cause) == [ok |-> FALSE, val |-> 0, err |-> err, cause |-> cause]

\* Mutant: the start time is refused unless strictly earlier than the clock.
StartTimeAhead_NotBefore(b, now) == b.has_start_time /\ b.start_time >= now

\* start_time > Utc::now(), for a start time that was set.
StartTimeAhead(b, now) == b.has_start_time /\ b.start_time > now

\* The start time in ticks: the one set, or the default.
StartTicks(b) ==
    IF b.has_start_time THEN to_snowflake_time(b.start_time)
    ELSE to_snowflake_time(DefaultStartTime)

\* The machine id: what the source callable returns, its error as
\* MachineIdFailed; without a source, the masked id derived from the private
\* ip address (feature ip-fallback), NoPrivateIPv4 when there is none, and
\* MachineIdFailed when the feature is off.
ResolveMachineId(b, env, machine_id_mask) ==
    IF b.machine_id.set
    THEN IF b.machine_id.ok THEN Resolved(b.machine_id.val)
         ELSE Unresolved("MachineIdFailed", b.machine_id.err)
    ELSE IF ~env.ip_fallback THEN Unresolved("MachineIdFailed", "not provided")
    ELSE IF env.ip_ids.found
         THEN Resolved(env.ip_ids.machine_id % (machine_id_mask + 1))
         ELSE Unresolved("NoPrivateIPv4", "")

\* Mutant: the range check is off by one.
MachineIdOutOfRange_OffByOne(machine_id, machine_id_mask) ==
    machine_id > machine_id_mask + 1

\* machine_id > machine_id_mask
MachineIdOutOfRange(machine_id, machine_id_mask) == machine_id > machine_id_mask

\* Mutant: the predicate's answer is taken the wrong way round.
CheckMachineIdRejects_Inverted(b, machine_id) ==
    b.check_machine_id.set /\ machine_id \in b.check_machine_id.accepts

\* A check_machine_id predicate is set and returns false.
CheckMachineIdRejects(b, machine_id) ==
    b.check_machine_id.set /\ machine_id \notin b.check_machine_id.accepts

\* Mutant: the data-center stanza keeps the machine stanza's error variant.
ResolveDataCenterId_MachineVariant(b, env, data_center_id_mask) ==
    IF b.data_center_id.set
    THEN IF b.data_center_id.ok THEN Resolved(b.data_center_id.val)
         ELSE Unresolved("MachineIdFailed", b.data_center_id.err)
    ELSE IF ~env.ip_fallback THEN Unresolved("DataCenterIdFailed", "not provided")
    ELSE IF env.ip_ids.found
         THEN Resolved(env.ip_ids.data_center_id % (data_center_id_mask + 1))
         ELSE Unresolved("NoPrivateIPv4", "")

\* The data center id, as the machine id.
ResolveDataCenterId(b, env, data_center_id_mask) ==
    IF b.data_center_id.set
    THEN IF b.data_center_id.ok THEN Resolved(b.data_center_id.val)
         ELSE Unresolved("DataCenterIdFailed", b.data_center_id.err)
    ELSE IF ~env.ip_fallback THEN Unresolved("DataCenterIdFailed", "not provided")
    ELSE IF env.ip_ids.found
         THEN Resolved(env.ip_ids.data_center_id % (data_center_id_mask + 1))
         ELSE Unresolved("NoPrivateIPv4", "")

\* data_center_id > data_center_id_mask
DataCenterIdOutOfRange(data_center_id, data_center_id_mask) ==
    data_center_id > data_center_id_mask

\* A check_data_center_id predicate is set and returns false.
CheckDataCenterIdRejects(b, data_center_id) ==
    b.check_data_center_id.set
        /\ data_center_id \notin b.check_data_center_id.accepts

\* The data-center half of finalize, after the machine id is settled.
FinalizeDataCenterId(b, env, oc, start_time, machine_id, called) ==
    IF oc /\ Shl16Overflows(b.bit_len_data_center_id) THEN BuildPanic(called)
    ELSE
    LET data_center_id_mask == Mask16(b.bit_len_data_center_id)
        r == ResolveDataCenterId(b, env, data_center_id_mask)
        called1 == IF b.data_center_id.set THEN called \cup {"data_center_id"}
                   ELSE called
        called2 == IF b.check_data_center_id.set
                   THEN called1 \cup {"check_data_center_id"} ELSE called1
    IN
    IF ~r.ok THEN BuildErr(r.err, r.cause, called1)
    ELSE IF DataCenterIdOutOfRange(r.val, data_center_id_mask)
    THEN BuildErr("DataCenterIdFailed", "out of range", called1)
    ELSE IF CheckDataCenterIdRejects(b, r.val)
    THEN BuildErr("CheckDataCenterIdFailed", "", called2)
    ELSE BuildOk([ start_time |-> start_time,
                   machine_id |-> machine_id,
                   data_center_id |-> r.val,
                   bit_len_time |-> b.bit_len_time,
                   bit_len_sequence |-> b.bit_len_sequence,
                   bit_len_data_center_id |-> b.bit_len_data_center_id,
                   bit_len_machine_id |-> b.bit_len_machine_id ], called2)

\* The machine half of finalize, after the start time is settled.
FinalizeMachineId(b, env, oc, start_time) ==
    IF oc /\ Shl16Overflows(b.bit_len_machine_id) THEN BuildPanic({})
    ELSE
    LET machine_id_mask == Mask16(b.bit_len_machine_id)
        r == ResolveMachineId(b, env, machine_id_mask)
        called1 == IF b.machine_id.set THEN {"machine_id"} ELSE {}
        called2 == IF b.check_machine_id.set
                   THEN called1 \cup {"check_machine_id"} ELSE called1
    IN
    IF ~r.ok THEN BuildErr(r.err, r.cause, called1)
    ELSE IF MachineIdOutOfRange(r.val, machine_id_mask)
    THEN BuildErr("MachineIdFailed", "out of range", called1)
    ELSE IF CheckMachineIdRejects(b, r.val)
    THEN BuildErr("CheckMachineIdFailed", "", called2)
    ELSE FinalizeDataCenterId(b, env, oc, start_time, r.val, called2)

\* Builder::finalize on builder b, with the clock reading now, in environment
\* env (the ip-fallback feature and what the interface scan finds) and with
\* overflow checks oc.
finalize(b, now, env, oc) ==
    IF oc /\ BitLenSumOverflows(b) THEN BuildPanic({})
    ELSE IF BitLenSum(b) # 63 THEN BuildErr("InvalidBitLength", "", {})
    ELSE IF StartTimeAhead(b, now)
    THEN BuildErr("StartTimeAheadOfCurrentTime", "", {})
    ELSE FinalizeMachineId(b, env, oc, StartTicks(b))

\* ------------------------------------------------------------------------
\* ID packing and decomposition
\* ------------------------------------------------------------------------

\* bit_len_sequence + bit_len_data_center_id + bit_len_machine_id (u8).
time_shift(sh) ==
    U8WrappingAdd(U8WrappingAdd(sh.bit_len_sequence, sh.bit_len_data_center_id),
                  sh.bit_len_machine_id)

\* bit_len_data_center_id + bit_len_machine_id (u8).
sequence_shift(sh) ==
    U8WrappingAdd(sh.bit_len_data_center_id, sh.bit_len_machine_id)

\* bit_len_machine_id.
data_center_shift(sh) == sh.bit_len_machine_id

\* Computing the three shifts and shifting by them overflows (u8 +, u64 <<).
PackOverflows(sh) ==
    \/ U8AddOverflows(sh.bit_len_sequence, sh.bit_len_data_center_id)
    \/ U8AddOverflows(sh.bit_len_sequence + sh.bit_len_data_center_id,
                      sh.bit_len_machine_id)
    \/ U8AddOverflows(sh.bit_len_data_center_id, sh.bit_len_machine_id)
    \/ Shl64Overflows(time_shift(sh))
    \/ Shl64Overflows(sequence_shift(sh))
    \/ Shl64Overflows(data_center_shift(sh))

\* (time << time_shift) | (sequence << sequence_shift)
\*   | (data_center_id << data_center_shift) | machine_id, on u64 values,
\* with the shift amounts masked as a build without overflow checks does.
PackId(time, sequence, data_center_id, machine_id, sh) ==
    Shl64(time, time_shift(sh) % 64)
        \cup Shl64(sequence, sequence_shift(sh) % 64)
        \cup Shl64(data_center_id, data_center_shift(sh) % 64)
        \cup machine_id

\* Mutant: the limit itself is let through (> for >=).
OverTimeLimit_Strict(elapsed_time, bit_len_time) ==
    LET n == bit_len_time % 64 IN
    IF n = 63 THEN TRUE
    ELSE IF n <= 30 THEN elapsed_time > Pow2(n)
    ELSE FALSE

\* internals.elapsed_time >= (1 << bit_len_time) on i64, elapsed_time below
\* 2^31: 1 << 63 is i64::MIN, which every elapsed_time reaches.
OverTimeLimit(elapsed_time, bit_len_time) ==
    LET n == bit_len_time % 64 IN
    IF n = 63 THEN TRUE
    ELSE IF n <= 30 THEN elapsed_time >= Pow2(n)
    ELSE FALSE

\* The assert_eq! of decompose: the widths, added as u32, are 63.
DecomposeAssert(l) ==
    l.bit_len_time + l.bit_len_sequence + l.bit_len_data_center_id
        + l.bit_len_machine_id = 63

\* Mutant: the sequence mask is shifted past the machine segment only.
DecomposeSequenceMask_NoDataCenter(l) ==
    Shl64(Mask64(l.bit_len_sequence), l.bit_len_machine_id)

\* ((1 << bit_len_sequence) - 1) << (bit_len_data_center_id + bit_len_machine_id)
DecomposeSequenceMask(l) ==
    Shl64(Mask64(l.bit_len_sequence),
          l.bit_len_data_center_id + l.bit_len_machine_id)

\* DecomposedSnowflake::decompose(id, bit_len_time, bit_len_sequence,
\* bit_len_data_center_id, bit_len_machine_id), for widths passing the assert.
Decompose(id, l) ==
    LET machine_id_mask == Mask64(l.bit_len_machine_id)
        data_center_id_mask ==
            Shl64(Mask64(l.bit_len_data_center_id), l.bit_len_machine_id)
        sequence_mask == DecomposeSequenceMask(l)
        tshift == l.bit_len_sequence + l.bit_len_data_center_id
                    + l.bit_len_machine_id
        sshift == l.bit_len_data_center_id + l.bit_len_machine_id
        dshift == l.bit_len_machine_id
    IN  [ id |-> id,
          time |-> Shr64(id, tshift),
          sequence |-> Shr64(id \cap sequence_mask, sshift),
          data_center_id |-> Shr64(id \cap data_center_id_mask, dshift),
          machine_id |-> id \cap machine_id_mask ]

\* The widths the free function decompose is written for.
BIT_LEN_TIME == 39
BIT_LEN_SEQUENCE == 8
BIT_LEN_DATA_CENTER_ID == 8
BIT_LEN_MACHINE_ID ==
    63 - BIT_LEN_TIME - BIT_LEN_SEQUENCE - BIT_LEN_DATA_CENTER_ID

\* ((1 << BIT_LEN_SEQUENCE) - 1) << (BIT_LEN_DATA_CENTER_ID + BIT_LEN_MACHINE_ID)
DECOMPOSE_MASK_SEQUENCE ==
    Shl64(Mask64(BIT_LEN_SEQUENCE), BIT_LEN_DATA_CENTER_ID + BIT_LEN_MACHINE_ID)

\* ((1 << BIT_LEN_DATA_CENTER_ID) - 1) << BIT_LEN_MACHINE_ID
MASK_DATA_CENTER_ID == Shl64(Mask64(BIT_LEN_DATA_CENTER_ID), BIT_LEN_MACHINE_ID)

\* (1 << BIT_LEN_MACHINE_ID) - 1
MASK_MACHINE_ID == Mask64(BIT_LEN_MACHINE_ID)

\* The free function decompose(id): no layout is passed, the masks and shifts
\* are those of the constants above.
decompose(id) ==
    [ id |-> id,
      time |-> Shr64(id, BIT_LEN_SEQUENCE + BIT_LEN_MACHINE_ID
                            + BIT_LEN_DATA_CENTER_ID),
      sequence |-> Shr64(id \cap DECOMPOSE_MASK_SEQUENCE,
                         BIT_LEN_MACHINE_ID + BIT_LEN_DATA_CENTER_ID),
      data_center_id |-> Shr64(id \cap MASK_DATA_CENTER_ID, BIT_LEN_MACHINE_ID),
      machine_id |-> id \cap MASK_MACHINE_ID ]

\* ------------------------------------------------------------------------
\* State
\* ------------------------------------------------------------------------

\* Threads that share one generator (through clones of its handle).
NumThreads == 2

\* next_id calls made on the generator, by all threads together.
MaxCalls == 2

\* The clock reads at most MaxClockTicks ticks after the origin.
MaxClockTicks == 2

VARIABLES
    overflow_checks,  \* the build panics on arithmetic overflow (else it wraps)
    builder,          \* the Builder that finalize consumes
    env,              \* ip-fallback feature and the result of get_ids_from_ip
    clock,            \* Utc::now(), in ns
    built,            \* what finalize returned ("none" before it ran)
    internals,        \* Internals: elapsed_time, sequence
    poisoned,         \* the mutex is poisoned
    holder,           \* the thread holding the mutex guard, 0 if none
    pc,               \* per thread: where its next_id call stands
    overtime,         \* per thread: the local overtime of next_id
    sleep_left,       \* per thread: what remains of its thread::sleep, in ns
    ncalls,           \* next_id calls started, by all threads together
    results,          \* what the next_id calls returned, in the order they returned
    codec,            \* an ID packed from given fields, and its decomposition
    handle            \* per thread: the Snowflake handle it owns (NoHandle if none)

vars == <<overflow_checks, builder, env, clock, built, internals, poisoned,
          holder, pc, overtime, sleep_left, ncalls, results, codec, handle>>

Threads == 1..NumThreads

HalfTick == SNOWFLAKE_TIME_UNIT \div 2

\* The instants the clock can read: every half tick up to MaxClockTicks.
Instants == {h * HalfTick : h \in 0..(2 * MaxClockTicks)}

\* A thread owns no handle; the handle of the one Arc<SharedSnowflake> that
\* finalize allocates.
NoHandle == 0
SharedRef == 1

\* Snowflake::clone: Arc::clone of the inner pointer, the same SharedSnowflake.
Clone(h) == h

\* No finalize has run yet.
NotBuilt == [kind |-> "none", err |-> "", cause |-> "", called |-> {},
             shared |-> NoShared]

\* Internals of a new generator: elapsed_time 0, sequence 0.
NewInternals == [elapsed_time |-> 0, sequence |-> 0]

\* No packing or decomposition is in progress.
CodecIdle == [state |-> "idle", layout |-> NoShared, time |-> {}, sequence |-> {},
              data_center_id |-> {}, machine_id |-> {}, id |-> {},
              parts |-> Decompose({}, NoShared), text |-> <<>>, parsed |-> 0]

\* A builder with explicit identity sources and widths.
BuilderWith(l, machine, dc, has_start, start) ==
    [ BuilderNew EXCEPT
        !.bit_len_time = l[1], !.bit_len_sequence = l[2],
        !.bit_len_data_center_id = l[3], !.bit_len_machine_id = l[4],
        !.machine_id = machine, !.data_center_id = dc,
        !.has_start_time = has_start, !.start_time = start ]

\* The environment of a build without the ip-fallback feature.
NoIpFallback ==
    [ip_fallback |-> FALSE,
     ip_ids |-> [found |-> FALSE, data_center_id |-> 0, machine_id |-> 0]]

\* The builders the generator is run from: the default layout, a layout whose
\* sequence wraps after two IDs, one whose time segment is exhausted after two
\* ticks, the widest time segment, a 16-bit sequence, a 16-bit machine segment
\* without data center, and widths whose u8 sum wraps to 63.
RunBuilders ==
    { BuilderWith(<<41, 12, 5, 5>>, SourceOk(10), SourceOk(5), TRUE, HalfTick),
      BuilderWith(<<46, 1, 8, 8>>, SourceOk(15), SourceOk(1), TRUE, 0),
      BuilderWith(<<1, 1, 31, 30>>, SourceOk(1), SourceOk(2), FALSE, 0),
      BuilderWith(<<63, 0, 0, 0>>, SourceOk(0), SourceOk(0), FALSE, 0),
      BuilderWith(<<30, 16, 8, 9>>, SourceOk(1), SourceOk(1), FALSE, 0),
      BuilderWith(<<39, 8, 0, 16>>, SourceOk(0), SourceOk(0), FALSE, 0),
      BuilderWith(<<39, 8, 0, 16>>, SourceOk(1), SourceOk(0), FALSE, 0),
      BuilderWith(<<248, 1, 30, 40>>, SourceOk(64), SourceOk(0), FALSE, 0) }

Init ==
    /\ overflow_checks \in BOOLEAN
    /\ builder \in RunBuilders
    /\ env = NoIpFallback
    /\ clock \in {0, HalfTick}
    /\ built = NotBuilt
    /\ internals = NewInternals
    /\ poisoned = FALSE
    /\ holder = 0
    /\ pc = [t \in Threads |-> "idle"]
    /\ overtime = [t \in Threads |-> 0]
    /\ sleep_left = [t \in Threads |-> 0]
    /\ ncalls = 0
    /\ results = <<>>
    /\ codec = CodecIdle
    /\ handle = [t \in Threads |-> NoHandle]

\* ------------------------------------------------------------------------
\* Operations
\* ------------------------------------------------------------------------

\* Builder::finalize.
Finalize ==
    /\ built.kind = "none"
    /\ built' = finalize(builder, clock, env, overflow_checks)
    /\ handle' = [handle EXCEPT ![1] = IF built'.kind = "ok" THEN SharedRef
                                       ELSE NoHandle]
    /\ UNCHANGED <<overflow_checks, builder, env, clock, internals, poisoned,
                   holder, pc, overtime, sleep_left, ncalls, results, codec>>

\* A thread that owns a handle clones it for a thread that owns none.
CloneHandle(t, u) ==
    /\ handle[t] # NoHandle
    /\ handle[u] = NoHandle
    /\ handle' = [handle EXCEPT ![u] = Clone(handle[t])]
    /\ UNCHANGED <<overflow_checks, builder, env, clock, built, internals,
                   poisoned, holder, pc, overtime, sleep_left, ncalls, results,
                   codec>>

\* What a next_id call returned.
ReturnedId(t, id, in) ==
    [thread |-> t, kind |-> "ok", err |-> "", id |-> id,
     time |-> in.elapsed_time, sequence |-> in.sequence]
ReturnedErr(t, err) ==
    [thread |-> t, kind |-> "err", err |-> err, id |-> {},
     time |-> 0, sequence |-> 0]
Panicked(t) ==
    [thread |-> t, kind |-> "panic", err |-> "", id |-> {},
     time |-> 0, sequence |-> 0]

\* A thread calls next_id on its handle.
NextIdCall(t) ==
    /\ handle[t] = SharedRef
    /\ pc[t] = "idle"
    /\ ncalls < MaxCalls
    /\ pc' = [pc EXCEPT ![t] = "lock"]
    /\ ncalls' = ncalls + 1
    /\ UNCHANGED <<overflow_checks, builder, env, clock, built, internals,
                   poisoned, holder, overtime, sleep_left, results, codec,
                   handle>>

\* self.0.internals.lock().map_err(|_| Error::MutexPoisoned)?  The lock is
\* taken when no thread holds the guard; a poisoned mutex gives the error and
\* the guard is dropped at once.
NextIdLock(t) ==
    /\ pc[t] = "lock"
    /\ holder = 0
    /\ IF poisoned
       THEN /\ results' = Append(results, ReturnedErr(t, "MutexPoisoned"))
            /\ pc' = [pc EXCEPT ![t] = "idle"]
            /\ UNCHANGED holder
       ELSE /\ holder' = t
            /\ pc' = [pc EXCEPT ![t] = "locked"]
            /\ UNCHANGED results
    /\ UNCHANGED <<overflow_checks, builder, env, clock, built, internals,
                   poisoned, overtime, sleep_left, ncalls, codec,
                   handle>>

\* Mutant: the tick is taken over whenever it differs, also a lower one.
UpdateInternals_NoRatchet(in, current, sequence_mask) ==
    IF in.elapsed_time # current
    THEN [elapsed_time |-> current, sequence |-> 0]
    ELSE LET sequence == (in.sequence + 1) % (sequence_mask + 1) IN
         [elapsed_time |-> IF sequence = 0 THEN in.elapsed_time + 1
                           ELSE in.elapsed_time,
          sequence |-> sequence]

\* Mutant: on a wrap the new tick is counted from the clock's reading.
UpdateInternals_ResetOnWrap(in, current, sequence_mask) ==
    IF in.elapsed_time < current
    THEN [elapsed_time |-> current, sequence |-> 0]
    ELSE LET sequence == (in.sequence + 1) % (sequence_mask + 1) IN
         [elapsed_time |-> IF sequence = 0 THEN current + 1
                           ELSE in.elapsed_time,
          sequence |-> sequence]

\* The internals after the clock was read as current: the tick is taken over
\* and the sequence reset, or the sequence is incremented under the mask and,
\* when it wraps, elapsed_time is advanced by one.
UpdateInternals(in, current, sequence_mask) ==
    IF in.elapsed_time < current
    THEN [elapsed_time |-> current, sequence |-> 0]
    ELSE LET sequence == (in.sequence + 1) % (sequence_mask + 1) IN
         [elapsed_time |-> IF sequence = 0 THEN in.elapsed_time + 1
                           ELSE in.elapsed_time,
          sequence |-> sequence]

\* The sequence wrapped: the branch that advances elapsed_time and sleeps.
SequenceWrapped(in, current, sequence_mask) ==
    /\ ~(in.elapsed_time < current)
    /\ (in.sequence + 1) % (sequence_mask + 1) = 0

\* Mutant: the unwinding thread releases the mutex without poisoning it.
PanicHolding_NoPoison(t) ==
    /\ poisoned' = poisoned
    /\ holder' = 0
    /\ pc' = [pc EXCEPT ![t] = "panicked"]
    /\ results' = Append(results, Panicked(t))

\* A panic while the guard is held: the mutex is poisoned, the guard dropped,
\* the thread unwinds.
PanicHolding(t) ==
    /\ poisoned' = TRUE
    /\ holder' = 0
    /\ pc' = [pc EXCEPT ![t] = "panicked"]
    /\ results' = Append(results, Panicked(t))

\* next_id from the sequence mask to the end of the if: the mask is computed,
\* the clock read, the internals updated.
NextIdUpdate(t) ==
    /\ pc[t] = "locked"
    /\ IF overflow_checks /\ Shl16Overflows(built.shared.bit_len_sequence)
       THEN /\ PanicHolding(t)
            /\ UNCHANGED <<internals, overtime>>
       ELSE LET sequence_mask == Mask16(built.shared.bit_len_sequence)
                current == current_elapsed_time(clock, built.shared.start_time)
                wrapped == SequenceWrapped(internals, current, sequence_mask)
                next == UpdateInternals(internals, current, sequence_mask)
            IN  /\ internals' = next
                /\ overtime' = [overtime EXCEPT ![t] =
                                   IF wrapped THEN next.elapsed_time - current
                                   ELSE @]
                /\ pc' = [pc EXCEPT ![t] = IF wrapped THEN "sleep" ELSE "check"]
                /\ UNCHANGED <<poisoned, holder, results>>
    /\ UNCHANGED <<overflow_checks, builder, env, clock, built, sleep_left,
                   ncalls, codec,
                   handle>>

\* thread::sleep(sleep_time(overtime)): the clock is read again and the sleep
\* begins; a negative duration is a panic of Duration's subtraction.
NextIdSleep(t) ==
    /\ pc[t] = "sleep"
    /\ LET d == sleep_time(overtime[t], clock) IN
       IF d < 0
       THEN /\ PanicHolding(t)
            /\ UNCHANGED sleep_left
       ELSE /\ sleep_left' = [sleep_left EXCEPT ![t] = d]
            /\ pc' = [pc EXCEPT ![t] = "sleeping"]
            /\ UNCHANGED <<poisoned, holder, results>>
    /\ UNCHANGED <<overflow_checks, builder, env, clock, built, internals,
                   overtime, ncalls, codec,
                   handle>>

\* thread::sleep returns once the duration has passed.
NextIdWake(t) ==
    /\ pc[t] = "sleeping"
    /\ sleep_left[t] = 0
    /\ pc' = [pc EXCEPT ![t] = "check"]
    /\ UNCHANGED <<overflow_checks, builder, env, clock, built, internals,
                   poisoned, holder, overtime, sleep_left, ncalls, results, codec,
                   handle>>

\* What next_id returns after the if: OverTimeLimit or the packed ID.
NextIdResult(t, in, sh) ==
    IF OverTimeLimit(in.elapsed_time, sh.bit_len_time)
    THEN ReturnedErr(t, "OverTimeLimit")
    ELSE ReturnedId(t, PackId(BitsOf(in.elapsed_time), BitsOf(in.sequence),
                              BitsOf(sh.data_center_id), BitsOf(sh.machine_id), sh),
                    in)

\* next_id from the time-limit check to the return; the guard is dropped.
NextIdReturn(t) ==
    /\ pc[t] = "check"
    /\ IF overflow_checks
          /\ (\/ Shl64Overflows(built.shared.bit_len_time)
              \/ (/\ ~OverTimeLimit(internals.elapsed_time, built.shared.bit_len_time)
                  /\ PackOverflows(built.shared)))
       THEN PanicHolding(t)
       ELSE /\ results' = Append(results, NextIdResult(t, internals, built.shared))
            /\ holder' = 0
            /\ pc' = [pc EXCEPT ![t] = "idle"]
            /\ UNCHANGED poisoned
    /\ UNCHANGED <<overflow_checks, builder, env, clock, built, internals,
                   overtime, sleep_left, ncalls, codec,
                   handle>>

\* A call is in progress or may still be made: the clock will be read again.
ClockObserved ==
    /\ built.kind = "ok"
    /\ \/ ncalls < MaxCalls
       \/ \E t \in Threads : pc[t] \notin {"idle", "panicked"}

\* Time passes: the clock advances by half a tick and so does every sleep.  At
\* the last instant of the model the wall clock stays where it is (it is set
\* back by the half tick that passed) while the sleeps, which run on the
\* monotonic clock, go on.
Tick ==
    /\ ClockObserved
    /\ clock' = IF clock + HalfTick \in Instants THEN clock + HalfTick ELSE clock
    /\ sleep_left' = [t \in Threads |->
                        IF pc[t] = "sleeping" /\ sleep_left[t] > HalfTick
                        THEN sleep_left[t] - HalfTick ELSE 0]
    /\ UNCHANGED <<overflow_checks, builder, env, built, internals, poisoned,
                   holder, pc, overtime, ncalls, results, codec,
                   handle>>

\* The wall clock is set back (sleeps run on the monotonic clock: unchanged).
ClockBack ==
    /\ ClockObserved
    /\ \E c \in Instants :
          /\ c < clock
          /\ clock' = c
    /\ UNCHANGED <<overflow_checks, builder, env, built, internals, poisoned,
                   holder, pc, overtime, sleep_left, ncalls, results, codec,
                   handle>>

Next ==
    \/ Finalize
    \/ \E t, u \in Threads : CloneHandle(t, u)
    \/ \E t \in Threads : NextIdCall(t)
    \/ \E t \in Threads : NextIdLock(t)
    \/ \E t \in Threads : NextIdUpdate(t)
    \/ \E t \in Threads : NextIdSleep(t)
    \/ \E t \in Threads : NextIdWake(t)
    \/ \E t \in Threads : NextIdReturn(t)
    \/ Tick
    \/ ClockBack

Spec == Init /\ [][Next]_vars

\* The wall clock holds its reading while time passes for the sleeps:
\* thread::sleep waits out its duration on the monotonic clock and never reads
\* Utc::now(), so a wall clock that stalls or lags does not hold a sleep back.
ClockStall ==
    /\ ClockObserved
    /\ \E t \in Threads : pc[t] = "sleeping" /\ sleep_left[t] > 0
    /\ sleep_left' = [t \in Threads |->
                        IF pc[t] = "sleeping" /\ sleep_left[t] > HalfTick
                        THEN sleep_left[t] - HalfTick ELSE 0]
    /\ UNCHANGED <<overflow_checks, builder, env, clock, built, internals,
                   poisoned, holder, pc, overtime, ncalls, results, codec,
                   handle>>

\* The same program under a non-decreasing clock: the wall clock is never set
\* back; it advances, or it holds its reading while the sleeps go on.
NextMonotone ==
    \/ Finalize
    \/ \E t, u \in Threads : CloneHandle(t, u)
    \/ \E t \in Threads : NextIdCall(t)
    \/ \E t \in Threads : NextIdLock(t)
    \/ \E t \in Threads : NextIdUpdate(t)
    \/ \E t \in Threads : NextIdSleep(t)
    \/ \E t \in Threads : NextIdWake(t)
    \/ \E t \in Threads : NextIdReturn(t)
    \/ Tick /\ clock' > clock
    \/ ClockStall

SpecMonotone == Init /\ [][NextMonotone]_vars

\* The same program where time keeps passing (so sleeps end), a thread inside
\* next_id keeps running, and a thread waiting for the mutex gets it if it is
\* free again and again.
SpecLive ==
    /\ Init
    /\ [][Next]_vars
    /\ WF_vars(Tick)
    /\ \A t \in Threads :
          /\ SF_vars(NextIdLock(t))
          /\ WF_vars(NextIdUpdate(t))
          /\ WF_vars(NextIdSleep(t))
          /\ WF_vars(NextIdWake(t))
          /\ WF_vars(NextIdReturn(t))

\* ------------------------------------------------------------------------
\* Builder::finalize over a wide family of builders
\* ------------------------------------------------------------------------

\* Widths summing to 63, to less, to more, and to more than a u8 holds
\* (319 and 575 wrap to 63; 300 and 1020 wrap to other values).
BuildLayouts ==
    { <<41, 12, 5, 5>>, <<39, 8, 8, 8>>, <<39, 8, 0, 16>>, <<30, 10, 10, 13>>,
      <<63, 0, 0, 0>>, <<15, 16, 16, 16>>, <<18, 15, 15, 15>>,
      <<41, 12, 5, 4>>, <<0, 0, 0, 0>>, <<41, 12, 5, 6>>, <<64, 0, 0, 0>>,
      <<255, 64, 0, 0>>, <<248, 1, 30, 40>>, <<255, 255, 65, 0>>,
      <<200, 100, 0, 0>>, <<255, 255, 255, 255>> }

\* Identity sources: none, one that fails, and ids inside and outside the
\* 5-bit, 8-bit and 15-bit masks.
BuildSources ==
    { NoSource, SourceErr("SomeError"),
      SourceOk(0), SourceOk(1), SourceOk(32), SourceOk(65535) }

\* Check predicates: none, |_| false, and |id| id == 1.
BuildChecks == { NoCheck, Check({}), Check({1}) }

\* Builds without the ip-fallback feature, with it and no private address,
\* and with it and an address giving data center 3, machine 200.
BuildEnvs ==
    { NoIpFallback,
      [ip_fallback |-> TRUE,
       ip_ids |-> [found |-> FALSE, data_center_id |-> 0, machine_id |-> 0]],
      [ip_fallback |-> TRUE,
       ip_ids |-> [found |-> TRUE, data_center_id |-> 3, machine_id |-> 200]] }

InitBuilder ==
    /\ overflow_checks \in BOOLEAN
    /\ \E l \in BuildLayouts, m \in BuildSources, d \in BuildSources,
          cm \in BuildChecks, cd \in BuildChecks, hs \in BOOLEAN :
          builder = [ BuilderWith(l, m, d, hs, HalfTick) EXCEPT
                        !.check_machine_id = cm, !.check_data_center_id = cd ]
    /\ env \in BuildEnvs
    /\ clock \in {0, HalfTick, SNOWFLAKE_TIME_UNIT}
    /\ built = NotBuilt
    /\ internals = NewInternals
    /\ poisoned = FALSE
    /\ holder = 0
    /\ pc = [t \in Threads |-> "idle"]
    /\ overtime = [t \in Threads |-> 0]
    /\ sleep_left = [t \in Threads |-> 0]
    /\ ncalls = 0
    /\ results = <<>>
    /\ codec = CodecIdle
    /\ handle = [t \in Threads |-> NoHandle]

\* Only the build: the clock stands at its reading at build time.
SpecBuilder == InitBuilder /\ [][Finalize]_vars

\* ------------------------------------------------------------------------
\* Packing and decomposing given fields
\* ------------------------------------------------------------------------

\* Layouts summing to 63: with and without data center, with empty and with
\* 63-bit segments.
CodecLayouts ==
    { <<41, 12, 5, 5>>, <<39, 8, 8, 8>>, <<39, 8, 0, 16>>, <<30, 10, 10, 13>>,
      <<1, 1, 31, 30>>, <<63, 0, 0, 0>>, <<0, 63, 0, 0>>, <<0, 0, 0, 63>> }

\* The widths of a layout, as the bit_len fields of a SharedSnowflake.
LayoutOf(l) ==
    [ NoShared EXCEPT
        !.bit_len_time = l[1], !.bit_len_sequence = l[2],
        !.bit_len_data_center_id = l[3], !.bit_len_machine_id = l[4] ]

\* Values of a field of width w, all below 2^w: 0, 1, 2^(w-1), 2^w - 1 and
\* the value with every other bit set.
FieldValues(w) ==
    { {}, 0..(w - 1), {0} \cap (0..(w - 1)), {w - 1} \cap (0..(w - 1)),
      {i \in 0..(w - 1) : i % 2 = 1} }

InitCodec ==
    /\ overflow_checks = FALSE
    /\ builder = BuilderNew
    /\ env = NoIpFallback
    /\ clock = 0
    /\ built = NotBuilt
    /\ internals = NewInternals
    /\ poisoned = FALSE
    /\ holder = 0
    /\ pc = [t \in Threads |-> "idle"]
    /\ overtime = [t \in Threads |-> 0]
    /\ sleep_left = [t \in Threads |-> 0]
    /\ ncalls = 0
    /\ results = <<>>
    /\ handle = [t \in Threads |-> NoHandle]
    /\ \E l \in CodecLayouts :
       \E t \in FieldValues(l[1]), s \in FieldValues(l[2]),
          d \in FieldValues(l[3]), m \in FieldValues(l[4]) :
          codec = [ CodecIdle EXCEPT
                      !.state = "fields", !.layout = LayoutOf(l),
                      !.time = t, !.sequence = s,
                      !.data_center_id = d, !.machine_id = m ]

\* The fields are packed by the shift-and-OR of next_id.
CodecPack ==
    /\ codec.state = "fields"
    /\ codec' = [ codec EXCEPT
                    !.state = "packed",
                    !.id = PackId(codec.time, codec.sequence,
                                  codec.data_center_id, codec.machine_id,
                                  codec.layout) ]
    /\ UNCHANGED <<overflow_checks, builder, env, clock, built, internals,
                   poisoned, holder, pc, overtime, sleep_left, ncalls, results,
                   handle>>

\* DecomposedSnowflake::decompose is applied to the packed ID.
CodecDecompose ==
    /\ codec.state = "packed"
    /\ DecomposeAssert(codec.layout)
    /\ codec' = [ codec EXCEPT
                    !.state = "decomposed",
                    !.parts = Decompose(codec.id, codec.layout) ]
    /\ UNCHANGED <<overflow_checks, builder, env, clock, built, internals,
                   poisoned, holder, pc, overtime, sleep_left, ncalls, results,
                   handle>>

\* The free function decompose is applied to the packed ID.
CodecDecomposeFree ==
    /\ codec.state = "packed"
    /\ codec' = [ codec EXCEPT
                    !.state = "decomposed_free",
                    !.parts = decompose(codec.id) ]
    /\ UNCHANGED <<overflow_checks, builder, env, clock, built, internals,
                   poisoned, holder, pc, overtime, sleep_left, ncalls, results,
                   handle>>

SpecCodec ==
    InitCodec /\ [][CodecPack \/ CodecDecompose \/ CodecDecomposeFree]_vars

\* ------------------------------------------------------------------------
\* Text encodings of a decomposed ID
\* ------------------------------------------------------------------------

\* The digits of radix 36, in order of value: 0-9 then a-z.
Radix36Digits ==
    << "0", "1", "2", "3", "4", "5", "6", "7", "8", "9", "a", "b", "c", "d",
       "e", "f", "g", "h", "i", "j", "k", "l", "m", "n", "o", "p", "q", "r",
       "s", "t", "u", "v", "w", "x", "y", "z" >>

\* The k-th hexadecimal digit (from the right, k >= 0) of a u64.
Nibble(id, k) ==
    (IF 4 * k \in id THEN 1 ELSE 0) + (IF 4 * k + 1 \in id THEN 2 ELSE 0)
        + (IF 4 * k + 2 \in id THEN 4 ELSE 0) + (IF 4 * k + 3 \in id THEN 8 ELSE 0)

\* format!("{:x}", id): lower-case hexadecimal, no prefix, no leading zeros,
\* "0" for 0; a sequence of characters.
FormatLowerHex(id) ==
    LET top == IF id = {} THEN 0
               ELSE (CHOOSE b \in id : \A c \in id : c <= b) \div 4
    IN  [i \in 1..(top + 1) |-> Radix36Digits[Nibble(id, top + 1 - i) + 1]]

\* DecomposedSnowflake::base36(&self), on the decomposed record.
base36(parts) == FormatLowerHex(parts.id)

\* The value of a character as a radix-36 digit.
Radix36Value(c) == (CHOOSE v \in 1..36 : Radix36Digits[v] = c) - 1

\* The number a text denotes in radix 36 (texts of five digits at most).
RECURSIVE ParseRadix36(_)
ParseRadix36(text) ==
    IF text = <<>> THEN 0
    ELSE 36 * ParseRadix36(SubSeq(text, 1, Len(text) - 1))
            + Radix36Value(text[Len(text)])

\* The IDs that are encoded: 0..MaxTextId.
MaxTextId == 299

InitText ==
    /\ overflow_checks = FALSE
    /\ builder = BuilderNew
    /\ env = NoIpFallback
    /\ clock = 0
    /\ built = NotBuilt
    /\ internals = NewInternals
    /\ poisoned = FALSE
    /\ holder = 0
    /\ pc = [t \in Threads |-> "idle"]
    /\ overtime = [t \in Threads |-> 0]
    /\ sleep_left = [t \in Threads |-> 0]
    /\ ncalls = 0
    /\ results = <<>>
    /\ handle = [t \in Threads |-> NoHandle]
    /\ \E n \in 0..MaxTextId :
          codec = [ CodecIdle EXCEPT
                      !.state = "decomposed", !.layout = LayoutOf(<<41, 12, 5, 5>>),
                      !.id = BitsOf(n),
                      !.parts = Decompose(BitsOf(n), LayoutOf(<<41, 12, 5, 5>>)) ]

\* base36 is called on the decomposed ID.
TextBase36 ==
    /\ codec.state = "decomposed"
    /\ codec' = [codec EXCEPT !.state = "encoded", !.text = base36(codec.parts)]
    /\ UNCHANGED <<overflow_checks, builder, env, clock, built, internals,
                   poisoned, holder, pc, overtime, sleep_left, ncalls, results,
                   handle>>

\* A reader decodes the text as a radix-36 number.
TextParse ==
    /\ codec.state = "encoded"
    /\ codec' = [codec EXCEPT !.state = "parsed",
                               !.parsed = ParseRadix36(codec.text)]
    /\ UNCHANGED <<overflow_checks, builder, env, clock, built, internals,
                   poisoned, holder, pc, overtime, sleep_left, ncalls, results,
                   handle>>

SpecText == InitText /\ [][TextBase36 \/ TextParse]_vars

\* ------------------------------------------------------------------------
\* Properties
\* ------------------------------------------------------------------------

\* The true sum of four widths.
WidthSum(r) ==
    r.bit_len_time + r.bit_len_sequence + r.bit_len_data_center_id
        + r.bit_len_machine_id

\* The i-th next_id call to return gave an ID.
OkAt(i) == results[i].kind = "ok"

\* A value below 2^w, w <= 63.
Below2Pow(n, w) == BitsOf(n) \subseteq Mask64(w)

\* The builder's start time is set and strictly later than the clock.
StartTimeIsLater == builder.has_start_time /\ builder.start_time > clock

\* C1: for a single generator, every ID that next_id returns is strictly
\* greater than every ID an earlier call returned, whatever the clock did.
C1_StrictlyIncreasing ==
    \A i, j \in DOMAIN results :
        (i < j /\ OkAt(i) /\ OkAt(j)) => Lt64(results[i].id, results[j].id)

\* C2: the IDs returned to the threads sharing one generator are pairwise
\* distinct in every interleaving.
C2_PairwiseDistinct ==
    \A i, j \in DOMAIN results :
        (i # j /\ OkAt(i) /\ OkAt(j)) => results[i].id # results[j].id

\* C3: for a layout summing to 63 and fields below 2^width, decompose applied
\* to the packed ID gives back time, sequence, data center id and machine id.
C3_DecomposeInvertsPack ==
    codec.state = "decomposed" =>
        /\ codec.parts.id = codec.id
        /\ codec.parts.time = codec.time
        /\ codec.parts.sequence = codec.sequence
        /\ codec.parts.data_center_id = codec.data_center_id
        /\ codec.parts.machine_id = codec.machine_id

\* C3 witness: an ID with four non-zero fields was packed and decomposed.
C3_Witness ==
    /\ codec.state = "decomposed"
    /\ codec.time # {} /\ codec.sequence # {}
    /\ codec.data_center_id # {} /\ codec.machine_id # {}

\* C4: finalize returns InvalidBitLength, and no generator, for every four
\* widths whose true sum is not 63, sums above 255 included.
C4_InvalidBitLengthRejected ==
    (built.kind # "none" /\ WidthSum(builder) # 63) =>
        (built.kind = "err" /\ built.err = "InvalidBitLength")

\* C5 as stated: finalize fails with StartTimeAheadOfCurrentTime exactly when
\* the start time set is strictly later than the clock at build time.
C5_StartTimeAheadWhenever ==
    [][Finalize =>
        (StartTimeIsLater <=>
            (built'.kind = "err" /\ built'.err = "StartTimeAheadOfCurrentTime"))]_vars

\* C5 amended: for widths summing to 63, finalize fails with
\* StartTimeAheadOfCurrentTime exactly when the start time set is strictly
\* later than the clock at build time (equal or earlier start times do not
\* fail for that reason).
C5_StartTimeAheadValidWidths ==
    [][(Finalize /\ WidthSum(builder) = 63) =>
        (StartTimeIsLater <=>
            (built'.kind = "err" /\ built'.err = "StartTimeAheadOfCurrentTime"))]_vars

\* C5 witness: a build with widths summing to 63 failed on a start time half
\* a tick ahead of the clock.
C5_Witness ==
    /\ built.kind = "err" /\ built.err = "StartTimeAheadOfCurrentTime"
    /\ WidthSum(builder) = 63
    /\ builder.has_start_time /\ builder.start_time = clock + HalfTick

\* C6: a next_id call that finds elapsed_time >= 2^bit_len_time returns
\* OverTimeLimit, and once a call has returned OverTimeLimit no later call on
\* the generator, from any thread and whatever the clock does, returns an ID.
C6_OverTimeLimitIsFinal ==
    [][\A t \in Threads :
        NextIdReturn(t) =>
            LET finds == ~Below2Pow(internals.elapsed_time,
                                    built.shared.bit_len_time)
                before == \E i \in DOMAIN results :
                              results[i].err = "OverTimeLimit"
                last == results'[Len(results')]
            IN  /\ finds => (last.kind = "err" /\ last.err = "OverTimeLimit")
                /\ before => last.kind # "ok"]_vars

\* C6 witness: elapsed_time stands at 2^bit_len_time or more, a call returned
\* OverTimeLimit and a later call returned an error too.
C6_Witness ==
    /\ ~Below2Pow(internals.elapsed_time, built.shared.bit_len_time)
    /\ \E i, j \in DOMAIN results :
          /\ i < j
          /\ results[i].err = "OverTimeLimit"
          /\ results[j].kind = "err"

\* C7: when the machine-id source (the data-center-id source) is called and
\* returns an error, finalize returns MachineIdFailed (DataCenterIdFailed)
\* wrapping that error, and no generator.
C7_SourceErrorFailsBuild ==
    /\ ("machine_id" \in built.called /\ ~builder.machine_id.ok) =>
          /\ built.kind = "err" /\ built.err = "MachineIdFailed"
          /\ built.cause = builder.machine_id.err
    /\ ("data_center_id" \in built.called /\ ~builder.data_center_id.ok) =>
          /\ built.kind = "err" /\ built.err = "DataCenterIdFailed"
          /\ built.cause = builder.data_center_id.err

\* C7 witness: the machine id was settled, then the data-center-id source was
\* called and failed.
C7_Witness ==
    /\ {"machine_id", "data_center_id"} \subseteq built.called
    /\ builder.machine_id.ok /\ ~builder.data_center_id.ok
    /\ built.kind = "err"

\* C8: for widths summing to 63, finalize fails with the out-of-range error
\* whenever a source returns an id above 2^width - 1 of its segment, and every
\* generator it returns has machine_id and data_center_id below 2^width.
C8_IdentityWithinWidth ==
    WidthSum(builder) = 63 =>
        /\ built.kind = "ok" =>
              /\ Below2Pow(built.shared.machine_id, builder.bit_len_machine_id)
              /\ Below2Pow(built.shared.data_center_id,
                           builder.bit_len_data_center_id)
        /\ (/\ "machine_id" \in built.called /\ builder.machine_id.ok
            /\ ~Below2Pow(builder.machine_id.val, builder.bit_len_machine_id)) =>
              /\ built.kind = "err" /\ built.err = "MachineIdFailed"
              /\ built.cause = "out of range"
        /\ (/\ "data_center_id" \in built.called /\ builder.data_center_id.ok
            /\ ~Below2Pow(builder.data_center_id.val,
                          builder.bit_len_data_center_id)) =>
              /\ built.kind = "err" /\ built.err = "DataCenterIdFailed"
              /\ built.cause = "out of range"

\* C8 witness: widths summing to 63, a machine id inside its segment and a
\* data center id of 32 refused for a 5-bit segment.
C8_Witness ==
    /\ WidthSum(builder) = 63
    /\ builder.bit_len_data_center_id = 5
    /\ "data_center_id" \in built.called
    /\ builder.data_center_id.ok /\ builder.data_center_id.val = 32
    /\ built.kind = "err" /\ built.cause = "out of range"

\* C9: when a check predicate is called on the resolved machine id (data
\* center id) and returns false, finalize returns CheckMachineIdFailed
\* (CheckDataCenterIdFailed), and no generator.
C9_CheckRejectionFailsBuild ==
    /\ (/\ "check_machine_id" \in built.called
        /\ ResolveMachineId(builder, env, Mask16(builder.bit_len_machine_id)).val
              \notin builder.check_machine_id.accepts) =>
          (built.kind = "err" /\ built.err = "CheckMachineIdFailed")
    /\ (/\ "check_data_center_id" \in built.called
        /\ ResolveDataCenterId(builder, env,
                               Mask16(builder.bit_len_data_center_id)).val
              \notin builder.check_data_center_id.accepts) =>
          (built.kind = "err" /\ built.err = "CheckDataCenterIdFailed")

\* C9 witness: the machine id passed its check (id == 1), the data center id
\* 0 was refused by its own.
C9_Witness ==
    /\ {"check_machine_id", "check_data_center_id"} \subseteq built.called
    /\ builder.data_center_id.ok /\ builder.data_center_id.val = 0
    /\ builder.check_data_center_id.accepts = {1}
    /\ built.kind = "err" /\ built.err = "CheckDataCenterIdFailed"

\* C10: for widths summing to 63, every ID that next_id returns has bit 63
\* zero, every field is below 2^width of its segment, and each segment of the
\* ID holds exactly its field.
C10_SegmentsDisjointMsbZero ==
    WidthSum(builder) = 63 =>
        \A i \in DOMAIN results :
            OkAt(i) =>
                LET r == results[i]
                    sh == built.shared
                    m == sh.bit_len_machine_id
                    d == sh.bit_len_data_center_id
                    s == sh.bit_len_sequence
                IN  /\ 63 \notin r.id
                    /\ Below2Pow(r.time, sh.bit_len_time)
                    /\ Below2Pow(r.sequence, s)
                    /\ Below2Pow(sh.data_center_id, d)
                    /\ Below2Pow(sh.machine_id, m)
                    /\ r.id \cap (0..(m - 1)) = BitsOf(sh.machine_id)
                    /\ Shr64(r.id \cap (m..(m + d - 1)), m)
                          = BitsOf(sh.data_center_id)
                    /\ Shr64(r.id \cap ((m + d)..(m + d + s - 1)), m + d)
                          = BitsOf(r.sequence)
                    /\ Shr64(r.id \cap ((m + d + s)..63), m + d + s)
                          = BitsOf(r.time)

\* C10 witness: a generator with widths summing to 63 returned an ID with
\* non-zero time, sequence, data center and machine fields.
C10_Witness ==
    /\ WidthSum(builder) = 63
    /\ \E i \in DOMAIN results :
          /\ OkAt(i)
          /\ results[i].time > 0 /\ results[i].sequence > 0
          /\ built.shared.data_center_id > 0 /\ built.shared.machine_id > 0

\* C11: elapsed_time never decreases, in any step of any next_id call, whether
\* the call returns an ID or an error and whatever the wall clock did before.
C11_ElapsedTimeNeverDecreases ==
    [][internals'.elapsed_time >= internals.elapsed_time]_vars

\* C11 witness: a call read a clock two ticks or more behind elapsed_time (the
\* wall clock was set back) and has updated the internals.
C11_Witness ==
    \E t \in Threads :
        /\ pc[t] = "sleep"
        /\ overtime[t] >= 2
        /\ internals.elapsed_time
              >= current_elapsed_time(clock, built.shared.start_time) + 2

\* n mod 2^w for n below 2^30.
ModPow2(n, w) == IF w < 30 THEN n % Pow2(w) ELSE n

\* C12: for widths summing to 63, every next_id call that has taken the lock
\* leaves sequence 0 if it changes elapsed_time, leaves sequence at
\* (previous sequence + 1) mod 2^bit_len_sequence if it does not, and sequence
\* stays below 2^bit_len_sequence.
C12_SequenceResetsOrIncrements ==
    [][\A t \in Threads :
        (NextIdUpdate(t) /\ WidthSum(builder) = 63) =>
            /\ internals'.elapsed_time # internals.elapsed_time =>
                  internals'.sequence = 0
            /\ internals'.elapsed_time = internals.elapsed_time =>
                  internals'.sequence
                      = ModPow2(internals.sequence + 1,
                                built.shared.bit_len_sequence)
            /\ Below2Pow(internals'.sequence, built.shared.bit_len_sequence)]_vars

\* The time from instant c to the next tick boundary after it.
TimeToNextTick(c) ==
    (c \div SNOWFLAKE_TIME_UNIT + 1) * SNOWFLAKE_TIME_UNIT - c

\* C13 as stated: whenever next_id sleeps because the sequence wrapped, the
\* duration it asks for is at most one tick unit and is the time remaining
\* until the next tick boundary, whatever the clock did, backward jumps
\* included.
C13_SleepAtMostOneTick ==
    [][\A t \in Threads :
        (NextIdSleep(t) /\ pc'[t] = "sleeping") =>
            /\ sleep_left'[t] <= SNOWFLAKE_TIME_UNIT
            /\ sleep_left'[t] = TimeToNextTick(clock)]_vars

\* C13 amended: when the tick the call read was not behind elapsed_time, the
\* duration asked for is at most one tick unit and is the time remaining until
\* the next tick boundary; when the clock read was k ticks behind elapsed_time
\* (a backward jump), it is k tick units more than that.
C13_SleepToNextTickPlusBehind ==
    [][\A t \in Threads :
        (NextIdSleep(t) /\ pc'[t] = "sleeping") =>
            LET behind == overtime[t] - 1 IN
            /\ behind >= 0
            /\ sleep_left'[t]
                  = TimeToNextTick(clock) + behind * SNOWFLAKE_TIME_UNIT
            /\ behind = 0 => sleep_left'[t] <= SNOWFLAKE_TIME_UNIT]_vars

\* C13 witness: the sequence wrapped with the clock half a tick into the tick
\* of elapsed_time, and the call sleeps the remaining half tick.
C13_Witness ==
    \E t \in Threads :
        /\ pc[t] = "sleeping"
        /\ overtime[t] = 1
        /\ clock % SNOWFLAKE_TIME_UNIT = HalfTick
        /\ sleep_left[t] = HalfTick

\* C14: for widths summing to 63, a call that finds the clock's tick already
\* recorded advances elapsed_time exactly when the sequence stands at
\* 2^bit_len_sequence - 1, it then advances it by one and returns sequence 0,
\* and no more than 2^bit_len_sequence returned IDs share a time value.
C14_SequenceCapacityPerTick ==
    [][\A t \in Threads :
        /\ (NextIdUpdate(t) /\ WidthSum(builder) = 63) =>
              LET w == built.shared.bit_len_sequence
                  current == current_elapsed_time(clock, built.shared.start_time)
                  same_tick == ~(internals.elapsed_time < current)
                  last_value == internals.sequence = Pow2(w) - 1
              IN  /\ (same_tick /\ last_value) =>
                        /\ internals'.elapsed_time = internals.elapsed_time + 1
                        /\ internals'.sequence = 0
                  /\ (same_tick /\ ~last_value) =>
                        internals'.elapsed_time = internals.elapsed_time
        /\ (NextIdReturn(t) /\ WidthSum(builder) = 63) =>
              Cardinality({i \in DOMAIN results' :
                              /\ results'[i].kind = "ok"
                              /\ results'[i].time = internals.elapsed_time})
                  <= Pow2(built.shared.bit_len_sequence)]_vars

\* Some next_id execution has panicked while it held the lock.
SomeCallPanicked == \E i \in DOMAIN results : results[i].kind = "panic"

\* C15: once a next_id execution has panicked while holding the lock, every
\* next_id call that ends afterwards, on any thread's handle, returns
\* MutexPoisoned and no ID, and elapsed_time and sequence stay as they were.
C15_PoisonedAfterPanic ==
    [][SomeCallPanicked =>
        /\ internals' = internals
        /\ results' # results =>
              /\ results'[Len(results')].kind = "err"
              /\ results'[Len(results')].err = "MutexPoisoned"]_vars

\* C15 witness: a call panicked holding the lock and a later call, on the
\* other thread's handle, returned MutexPoisoned.
C15_Witness ==
    \E i, j \in DOMAIN results :
        /\ i < j
        /\ results[i].kind = "panic"
        /\ results[j].err = "MutexPoisoned"
        /\ results[j].thread # results[i].thread

\* C16: the handles the threads own, the original and its clones, refer to the
\* same state, and the IDs obtained through two different handles are distinct
\* and strictly increasing in the order in which the calls took effect (the
\* order in which they held the lock, which is the order of results).
C16_ClonesShareState ==
    /\ \A t, u \in Threads :
          (handle[t] # NoHandle /\ handle[u] # NoHandle) => handle[t] = handle[u]
    /\ \A i, j \in DOMAIN results :
          (/\ i < j /\ OkAt(i) /\ OkAt(j)
           /\ results[i].thread # results[j].thread) =>
              /\ results[i].id # results[j].id
              /\ Lt64(results[i].id, results[j].id)

\* The builder's widths sum to 63, both identity sources return ids below
\* 2^width of their segment, and no check predicate is set.
InRangeIdentity ==
    /\ WidthSum(builder) = 63
    /\ builder.machine_id.set /\ builder.machine_id.ok
    /\ builder.data_center_id.set /\ builder.data_center_id.ok
    /\ Below2Pow(builder.machine_id.val, builder.bit_len_machine_id)
    /\ Below2Pow(builder.data_center_id.val, builder.bit_len_data_center_id)
    /\ ~builder.check_machine_id.set /\ ~builder.check_data_center_id.set

\* C17: for widths summing to 63, a data-center width of 0 included, finalize
\* with in-range identity values (and a start time not ahead of the clock)
\* returns a generator, and every ID next_id returns decomposes, under the
\* builder's widths, to the configured machine id and data center id.
C17_InRangeIdentityBuildsAndDecomposes ==
    InRangeIdentity =>
        /\ built.kind # "none" =>
              \/ built.kind = "ok"
              \/ built.kind = "err" /\ built.err = "StartTimeAheadOfCurrentTime"
        /\ \A i \in DOMAIN results :
              OkAt(i) =>
                  LET parts == Decompose(results[i].id, built.shared) IN
                  /\ parts.machine_id = BitsOf(builder.machine_id.val)
                  /\ parts.data_center_id = BitsOf(builder.data_center_id.val)

\* C18: next_id is lock-free: a call that has been made can always take its
\* next step, whatever the other threads are doing; in particular a thread
\* stalled or sleeping in the middle of next_id does not keep another thread's
\* call waiting.
C18_NoCallWaitsForAnother ==
    \A t \in Threads : pc[t] = "lock" => ENABLED NextIdLock(t)

\* C19: with time passing, running threads scheduled and the lock acquired
\* fairly, every next_id call that was made returns (an ID or an error) in
\* every interleaving: the thread is back from the call.
C19_EveryCallReturns ==
    \A t \in Threads : (pc[t] = "lock") ~> (pc[t] = "idle")

\* C20: either decompose entry point, applied to an ID packed under a layout
\* summing to 63 (the builder's default 41/12/5/5 among them), returns the
\* time, sequence, data center id and machine id that were packed: the masks
\* and shifts come from that layout and from nothing else.
C20_EveryDecomposeUsesTheLayout ==
    codec.state \in {"decomposed", "decomposed_free"} =>
        /\ codec.parts.time = codec.time
        /\ codec.parts.sequence = codec.sequence
        /\ codec.parts.data_center_id = codec.data_center_id
        /\ codec.parts.machine_id = codec.machine_id

\* The epoch the builder was given, in ns: the start time set, or the default.
EpochOf(b) == IF b.has_start_time THEN b.start_time ELSE DefaultStartTime

\* C21: for a clock reading now at or after the epoch, the tick next_id uses
\* is floor((now - epoch) / SNOWFLAKE_TIME_UNIT), also for an epoch that is not
\* on a tick boundary: the internals after the update are those that tick gives.
C21_TickIsFloorOfElapsedNanos ==
    [][\A t \in Threads :
        (/\ NextIdUpdate(t) /\ pc'[t] # "panicked"
         /\ clock >= EpochOf(builder)) =>
            internals' =
                UpdateInternals(internals,
                                (clock - EpochOf(builder)) \div SNOWFLAKE_TIME_UNIT,
                                Mask16(built.shared.bit_len_sequence))]_vars

\* C22: every ID that next_id returns, in any sequence of calls, holds in its
\* machine segment (the lowest bit_len_machine_id bits) exactly the machine id
\* and in its data-center segment (the next bit_len_data_center_id bits)
\* exactly the data center id that finalize resolved.
C22_IdentityInEveryId ==
    \A i \in DOMAIN results :
        OkAt(i) =>
            LET m == built.shared.bit_len_machine_id
                d == built.shared.bit_len_data_center_id
            IN  /\ results[i].id \cap (0..(m - 1)) = BitsOf(built.shared.machine_id)
                /\ Shr64(results[i].id \cap (m..(m + d - 1)), m)
                      = BitsOf(built.shared.data_center_id)

\* C23: base36 returns the radix-36 text of the ID: read as a radix-36 number,
\* the text is the ID again, for every ID.
C23_Base36RoundTrip ==
    codec.state = "parsed" => BitsOf(codec.parsed) = codec.parts.id

\* The time field of an ID under the generator's layout: id >> time_shift.
TimeFieldOf(id, sh) == Shr64(id, time_shift(sh) % 64)

\* The sequence field of an ID under the generator's layout.
SequenceFieldOf(id, sh) ==
    Shr64(id \cap Shl64(Mask64(sh.bit_len_sequence), sequence_shift(sh) % 64),
          sequence_shift(sh) % 64)

\* C24: a next_id call that reads a tick strictly greater than elapsed_time
\* and below 2^bit_len_time sets elapsed_time to that tick and sequence to 0,
\* and returns an ID whose time field is that tick and whose sequence field is
\* 0; so does the first call on a new generator at a tick above 0.
C24_NewTickGivesSequenceZero ==
    [][\A t \in Threads :
        LET sh == built.shared
            current == current_elapsed_time(clock, sh.start_time)
        IN
        /\ (/\ NextIdUpdate(t) /\ pc'[t] # "panicked"
            /\ internals.elapsed_time < current) =>
              /\ internals' = [elapsed_time |-> current, sequence |-> 0]
              /\ pc'[t] = "check"
        /\ (/\ NextIdReturn(t) /\ pc'[t] # "panicked"
            /\ internals.sequence = 0
            /\ Below2Pow(internals.elapsed_time, sh.bit_len_time)) =>
              LET last == results'[Len(results')] IN
              /\ last.kind = "ok"
              /\ TimeFieldOf(last.id, sh) = BitsOf(internals.elapsed_time)
              /\ SequenceFieldOf(last.id, sh) = {}]_vars

\* C26: for widths summing to 63, bit_len_time = 63 included, next_id returns
\* OverTimeLimit only when elapsed_time is 2^bit_len_time or more: a call
\* whose updated elapsed_time is below 2^bit_len_time returns an ID.
C26_OverTimeLimitOnlyAtLimit ==
    [][\A t \in Threads :
        (/\ NextIdReturn(t) /\ WidthSum(builder) = 63
         /\ Below2Pow(internals.elapsed_time, built.shared.bit_len_time)) =>
            /\ results'[Len(results')].err # "OverTimeLimit"
            /\ results'[Len(results')].kind = "ok"]_vars

\* C25: under a non-decreasing clock (one that advances or holds its reading
\* and is never set back), every next_id call finds elapsed_time at or below
\* the tick it reads, and the time field of every ID returned is at or below
\* the clock's tick at the moment of the return: after a sequence wrap the
\* call returns only once the clock has reached the advanced elapsed_time.
C25_TimeFieldNotAheadOfClock ==
    [][\A t \in Threads :
        LET sh == built.shared
            current == current_elapsed_time(clock, sh.start_time)
        IN
        /\ NextIdUpdate(t) => internals.elapsed_time <= current
        /\ (NextIdReturn(t) /\ results'[Len(results')].kind = "ok") =>
              /\ internals.elapsed_time <= current
              /\ ~Lt64(BitsOf(current),
                       TimeFieldOf(results'[Len(results')].id, sh))]_vars

\* The threads between taking the lock (before the clock is read) and the
\* return of the assembled ID.
InCriticalSection ==
    {t \in Threads : pc[t] \in {"locked", "sleep", "sleeping", "check"}}

\* C27: at most one thread at a time is between reading the clock and
\* assembling the ID, and the IDs returned, by whichever threads, are in
\* increasing numeric order in the order of their critical sections (the
\* order of results).
C27_CriticalSectionsSerialize ==
    /\ Cardinality(InCriticalSection) <= 1
    /\ \A t \in InCriticalSection : holder = t
    /\ \A i, j \in DOMAIN results :
          (i < j /\ OkAt(i) /\ OkAt(j)) => Lt64(results[i].id, results[j].id)

====
